---- MODULE Spec2Model ----
(***************************************************************************)
(* Authentication controller (src/components/Auth.tsx) and profile view    *)
(* (src/unnamed/part_000, ProfileAgent) over the hosted identity service   *)
(* and document store.                                                     *)
(*                                                                         *)
(* An async handler is a process: one action per awaited backend call,     *)
(* which takes the call's answer (success or a rejection) and runs the     *)
(* handler's synchronous continuation up to the next await.  A backend     *)
(* call takes effect at the moment it answers.                             *)
(*                                                                         *)
(* The handler's inputs are the form fields its closure captured when the  *)
(* submit fired (typing into a field and submitting are one step: edits    *)
(* made while a request is in flight do not reach that request).           *)
(*                                                                         *)
(* App.tsx, which mounts the two components, is not part of the source     *)
(* tree (Auth.tsx:102 and part_000:72 leave the switch between the two to  *)
(* it).  Here one of the two components is mounted at a time and the       *)
(* switch happens at any moment at which no handler is in flight; a        *)
(* component is mounted with its useState initial values.                  *)
(*                                                                         *)
(* The backend is shared: another user's account and profile document      *)
(* exist from the start and this client never holds that user's password.  *)
(*                                                                         *)
(* last and pLast are observations: the handler invocation that returned   *)
(* in the step just taken (NoOp / NoPOp after any other step).             *)
(***************************************************************************)
EXTENDS Integers, Sequences, FiniteSets, TLC

\* ------------------------------------------------------------------ bounds
\* the largest account id the identity service hands out
MaxUid == 2
\* the largest reading of the clock
MaxTime == 1
\* FileReader reads in flight
MaxReaders == 1
\* fetchProfile reads in flight
MaxFetches == 1
\* pending message timers
MaxTimers == 1

\* ------------------------------------------------------------ input values
Emails == {"", "a@x.com"}
Passwords == {"secret1", "abc"}
WeakPasswords == {"abc"}
Names == {"", "Ann"}
EditNames == {"Anne"}
Files == {[name |-> "p.png", data |-> "data:p"]}
Langs == {"en", "vi"}

\* JavaScript null / undefined (a field a document does not have)
Null == "<null>"
Undefined == "<undefined>"

\* x || ''
OrEmpty(x) == IF x \in {Null, Undefined, ""} THEN "" ELSE x

\* x || d
OrElse(x, d) == IF x \in {Null, Undefined, ""} THEN d ELSE x

NoUser == 0
\* the other user's account id
OtherUid == 1

None == << >>
Some(x) == <<x>>

VARIABLES
  \* identity service
  accounts,        \* uid -> account record, for the accounts that exist
  nextUid,         \* the last account id handed out
  currentUser,     \* auth.currentUser: a uid, or NoUser
  \* document store, collection "users"
  docs,            \* uid -> profile document, for the documents that exist
  now,             \* the clock read by new Date()
  mounted,         \* the component on screen: "Auth" or "ProfileAgent"
  \* Auth component state
  isLogin, isForgotPassword, resetSuccess,
  photoPreview, photoFileName,
  error, loading, verificationPending,
  readers,         \* FileReader reads in flight
  ops,             \* handleSubmit / handleResetPassword invocations in flight
  last,            \* the invocation that has just returned
  completed,       \* accounts whose sign-up or sign-in ran to its end
  \* ProfileAgent component state
  lang,
  pLoading, updating, profileData, editName, msg,
  pOp,             \* handleUpdate / handleDeleteAccount invocation in flight
  pLast,           \* the profile handler invocation that has just returned
  fetches,         \* fetchProfile reads in flight
  timers           \* pending setTimeout(() => setMsg(''), 3000)

backendVars == <<accounts, nextUid, currentUser, docs, now>>
screenVars == <<isLogin, isForgotPassword, resetSuccess, verificationPending>>
photoVars == <<photoPreview, photoFileName, readers>>
authVars == <<screenVars, photoVars, error, loading, ops>>
profileVars == <<lang, pLoading, updating, profileData, editName, msg, pOp,
                 fetches, timers>>
vars == <<backendVars, mounted, authVars, last, completed, profileVars, pLast>>

\* -------------------------------------------------------------- the backend

NoUserRec == [uid |-> NoUser, email |-> "", displayName |-> Null, emailVerified |-> FALSE]

\* the User object the identity service hands back
UserOf(u) == [uid |-> u, email |-> accounts[u].email,
              displayName |-> accounts[u].displayName,
              emailVerified |-> accounts[u].emailVerified]

AccountsWith(em) == {u \in DOMAIN accounts : accounts[u].email = em}

\* what signInWithEmailAndPassword may answer
SignInOutcomes(em, pw) ==
  (IF \E u \in AccountsWith(em) : accounts[u].password = pw
     THEN {"ok"}
     ELSE IF AccountsWith(em) # {}
       THEN {"auth/wrong-password", "auth/invalid-credential"}
       ELSE {"auth/user-not-found", "auth/invalid-credential"})
  \cup {"auth/too-many-requests", "auth/network-request-failed"}

\* what createUserWithEmailAndPassword may answer
CreateUserOutcomes(em, pw) ==
  (IF em = "" THEN {"auth/invalid-email"}
   ELSE IF AccountsWith(em) # {} THEN {"auth/email-already-in-use"}
   ELSE IF pw \in WeakPasswords THEN {"auth/weak-password"}
   ELSE {"ok"})
  \cup {"auth/network-request-failed"}

\* what sendPasswordResetEmail may answer
ResetOutcomes(em) ==
  (IF AccountsWith(em) # {} THEN {"ok"} ELSE {"auth/user-not-found"})
  \cup {"auth/invalid-email", "auth/network-request-failed"}

\* any other call: it succeeds or it is rejected
CallOutcomes == {"ok", "failed"}

Put(f, k, v) == [x \in DOMAIN f \cup {k} |-> IF x = k THEN v ELSE f[x]]
Drop(f, k) == [x \in DOMAIN f \ {k} |-> f[x]]

\* new Date(): the clock is read, and has moved on by the next reading
Tick == now' = IF now < MaxTime THEN now + 1 ELSE now

\* ------------------------------------------------------- Auth: invocations

NoOp == [kind |-> "none", pc |-> "none", email |-> "", password |-> "",
         confirmPassword |-> "", name |-> "", photoFileName |-> "",
         photoPreview |-> Null, user |-> NoUserRec, docExists |-> FALSE,
         calls |-> << >>]

NoPOp == [kind |-> "none", pc |-> "none", uid |-> NoUser, name |-> "",
          confirmed |-> FALSE, saved |-> None, calls |-> << >>]

Call(o, fn, res) == [o EXCEPT !.calls = Append(@, [fn |-> fn, res |-> res])]

\* the invocation o goes on as o2, awaiting the call fn
Await(o, o2, fn) ==
  /\ ops' = (ops \ {o}) \cup {[o2 EXCEPT !.pc = fn]}
  /\ last' = NoOp
  /\ UNCHANGED completed

\* the invocation o returns as o2, having reached the end of its branch
Return(o, o2) ==
  /\ ops' = ops \ {o}
  /\ last' = [o2 EXCEPT !.pc = "done"]
  /\ completed' = IF o2.user.uid # NoUser
                    THEN completed \cup {o2.user.uid} ELSE completed

\* the invocation o returns as o2 from a catch
Throw(o, o2) ==
  /\ ops' = ops \ {o}
  /\ last' = [o2 EXCEPT !.pc = "done"]
  /\ UNCHANGED completed

\* a variant of SubmitEnabled for buttons that are never disabled
SubmitAlwaysEnabled == TRUE

\* disabled={loading} on the submit buttons
SubmitEnabled == ~loading

StandardScreen == mounted = "Auth" /\ ~verificationPending /\ ~isForgotPassword
ForgotScreen == mounted = "Auth" /\ ~verificationPending /\ isForgotPassword
PendingScreen == mounted = "Auth" /\ verificationPending

\* a step that is not a handler's return
Quiet == last' = NoOp /\ pLast' = NoPOp /\ UNCHANGED completed

\* the user follows the link of a verification email
VerifyEmail(u) ==
  /\ u \in DOMAIN accounts
  /\ accounts[u].mailed
  /\ ~accounts[u].emailVerified
  /\ accounts' = [accounts EXCEPT ![u].emailVerified = TRUE]
  /\ Quiet
  /\ UNCHANGED <<nextUid, currentUser, docs, now, mounted, authVars, profileVars>>

\* -------------------------------------------------------- Auth: photo pick

handlePhotoChange(f) ==
  /\ StandardScreen /\ ~isLogin
  /\ Len(readers) < MaxReaders
  /\ photoFileName' = f.name
  /\ readers' = Append(readers, f)
  /\ Quiet
  /\ UNCHANGED <<backendVars, mounted, screenVars, photoPreview, error, loading, ops,
                 profileVars>>

RemoveAt(s, i) == SubSeq(s, 1, i - 1) \o SubSeq(s, i + 1, Len(s))

\* reader.onloadend: reader.result is the data URL, or null when the read failed
readerOnLoadEnd(i) ==
  /\ i \in 1 .. Len(readers)
  /\ \E result \in {readers[i].data, Null} : photoPreview' = result
  /\ readers' = RemoveAt(readers, i)
  /\ Quiet
  /\ UNCHANGED <<backendVars, mounted, screenVars, photoFileName, error, loading, ops,
                 profileVars>>

\* ----------------------------------------------------- Auth: screen clicks

\* "Sign Up" / "Sign In" link under the form
toggleMode ==
  /\ StandardScreen
  /\ isLogin' = ~isLogin
  /\ error' = ""
  /\ Quiet
  /\ UNCHANGED <<backendVars, mounted, isForgotPassword, resetSuccess,
                 verificationPending, photoVars, loading, ops, profileVars>>

\* "Forgot password?" button
forgotPasswordClick ==
  /\ StandardScreen /\ isLogin
  /\ isForgotPassword' = TRUE
  /\ resetSuccess' = FALSE
  /\ error' = ""
  /\ Quiet
  /\ UNCHANGED <<backendVars, mounted, isLogin, verificationPending, photoVars,
                 loading, ops, profileVars>>

\* "Back" on the forgot-password form
forgotBack ==
  /\ ForgotScreen /\ ~resetSuccess
  /\ isForgotPassword' = FALSE
  /\ Quiet
  /\ UNCHANGED <<backendVars, mounted, isLogin, resetSuccess, verificationPending,
                 photoVars, error, loading, ops, profileVars>>

\* "Sign In" on the reset-link-sent panel
resetDoneSignIn ==
  /\ ForgotScreen /\ resetSuccess
  /\ isForgotPassword' = FALSE
  /\ resetSuccess' = FALSE
  /\ isLogin' = TRUE
  /\ error' = ""
  /\ Quiet
  /\ UNCHANGED <<backendVars, mounted, verificationPending, photoVars, loading, ops,
                 profileVars>>

\* "Back to Login" on the verification screen
backToLogin ==
  /\ PendingScreen
  /\ verificationPending' = FALSE
  /\ isLogin' = TRUE
  /\ error' = ""
  /\ Quiet
  /\ UNCHANGED <<backendVars, mounted, isForgotPassword, resetSuccess, photoVars,
                 loading, ops, profileVars>>

\* "Yes" beside 'User already exists. Sign in?'
existsYes ==
  /\ StandardScreen
  /\ error = "User already exists. Sign in?"
  /\ isLogin' = TRUE
  /\ error' = ""
  /\ Quiet
  /\ UNCHANGED <<backendVars, mounted, isForgotPassword, resetSuccess,
                 verificationPending, photoVars, loading, ops, profileVars>>

\* ------------------------------------------------ Auth: handleResetPassword

ResetErrorText(code) ==
  IF code = "auth/user-not-found" THEN "No user found with this email."
  ELSE IF code = "auth/invalid-email" THEN "Invalid email address format."
  ELSE "Failed to send reset link. Try again later."

\* if (!email)
EmailMissing(em) == em = ""

handleResetPassword(em) ==
  /\ ForgotScreen /\ ~resetSuccess
  /\ SubmitEnabled
  /\ LET o == [NoOp EXCEPT !.kind = "reset", !.email = em]
     IN IF EmailMissing(em)
          THEN /\ error' = "Please enter your email address."
               /\ loading' = FALSE
               /\ ops' = ops
               /\ last' = [o EXCEPT !.pc = "done"]
          ELSE /\ error' = ""
               /\ loading' = TRUE
               /\ ops' = ops \cup {[o EXCEPT !.pc = "sendPasswordResetEmail"]}
               /\ last' = NoOp
  /\ pLast' = NoPOp
  /\ UNCHANGED completed
  /\ UNCHANGED <<backendVars, mounted, screenVars, photoVars, profileVars>>

rpSendPasswordResetEmail(o) ==
  /\ o.kind = "reset" /\ o.pc = "sendPasswordResetEmail"
  /\ \E r \in ResetOutcomes(o.email) :
       /\ IF r = "ok"
            THEN resetSuccess' = TRUE /\ error' = error
            ELSE resetSuccess' = resetSuccess /\ error' = ResetErrorText(r)
       /\ loading' = FALSE
       /\ Return(o, Call(o, "sendPasswordResetEmail", r))
  /\ pLast' = NoPOp
  /\ UNCHANGED <<backendVars, mounted, isLogin, isForgotPassword, verificationPending,
                 photoVars, profileVars>>

\* ------------------------------------------------------- Auth: handleSubmit

\* a variant of SignInErrorText that does not list auth/user-not-found
SignInErrorTextTwoCodes(code) ==
  IF code \in {"auth/invalid-credential", "auth/wrong-password"}
    THEN "Password or Email Incorrect"
  ELSE IF code = "auth/too-many-requests"
    THEN "Too many attempts. Please try again later."
  ELSE "Failed to sign in. Please check your connection."

SignInErrorText(code) ==
  IF code \in {"auth/invalid-credential", "auth/user-not-found", "auth/wrong-password"}
    THEN "Password or Email Incorrect"
  ELSE IF code = "auth/too-many-requests"
    THEN "Too many attempts. Please try again later."
  ELSE "Failed to sign in. Please check your connection."

SignUpErrorText(code) ==
  IF code = "auth/email-already-in-use" THEN "User already exists. Sign in?"
  ELSE IF code = "auth/weak-password" THEN "Password should be at least 6 characters."
  ELSE "Failed to create account."

\* a variant of SignInDoc that ignores the display name
SignInDocNamedUser(user) ==
  [name |-> "User",
   email |-> user.email,
   photoFileName |-> "",
   photoBase64 |-> Undefined,
   createdAt |-> now]

\* the document the sign-in branch writes for an account that has none
SignInDoc(user) ==
  [name |-> OrElse(user.displayName, "User"),
   email |-> user.email,
   photoFileName |-> "",
   photoBase64 |-> Undefined,
   createdAt |-> now]

\* the document the sign-up branch writes
SignUpDoc(o) ==
  [name |-> o.name,
   email |-> o.email,
   photoFileName |-> OrEmpty(o.photoFileName),
   photoBase64 |-> OrEmpty(o.photoPreview),
   createdAt |-> now]

\* the inner catch of a branch, then the finally
Catch(o, o2, text) ==
  /\ error' = text
  /\ loading' = FALSE
  /\ Throw(o, o2)

\* a variant of PasswordsDiffer that compares the password with itself
PasswordsDifferSelf(pw, cpw) == pw # pw

\* if (password !== confirmPassword)
PasswordsDiffer(pw, cpw) == pw # cpw

handleSubmit(em, pw, cpw, nm) ==
  /\ StandardScreen
  /\ SubmitEnabled
  /\ LET o == [NoOp EXCEPT !.email = em, !.password = pw]
         up == [o EXCEPT !.kind = "signup", !.confirmPassword = cpw, !.name = nm,
                         !.photoFileName = photoFileName,
                         !.photoPreview = photoPreview]
     IN IF isLogin
          THEN /\ cpw = pw /\ nm = ""
               /\ error' = ""
               /\ loading' = TRUE
               /\ ops' = ops \cup {[o EXCEPT !.kind = "signin",
                                             !.pc = "signInWithEmailAndPassword"]}
               /\ last' = NoOp
          ELSE IF PasswordsDiffer(pw, cpw)
            THEN /\ error' = "Passwords do not match"
                 /\ loading' = FALSE
                 /\ ops' = ops
                 /\ last' = [up EXCEPT !.pc = "done"]
            ELSE /\ error' = ""
                 /\ loading' = TRUE
                 /\ ops' = ops \cup {[up EXCEPT !.pc = "createUserWithEmailAndPassword"]}
                 /\ last' = NoOp
  /\ pLast' = NoPOp
  /\ UNCHANGED completed
  /\ UNCHANGED <<backendVars, mounted, screenVars, photoVars, profileVars>>

\* ---- sign-in branch

siSignIn(o) ==
  /\ o.kind = "signin" /\ o.pc = "signInWithEmailAndPassword"
  /\ \E r \in SignInOutcomes(o.email, o.password) :
       LET o2 == Call(o, "signInWithEmailAndPassword", r)
       IN IF r = "ok"
            THEN LET u == CHOOSE u \in AccountsWith(o.email) :
                            accounts[u].password = o.password
                 IN /\ currentUser' = u
                    /\ Await(o, [o2 EXCEPT !.user = UserOf(u)], "getDoc")
                    /\ UNCHANGED <<error, loading>>
            ELSE /\ Catch(o, o2, SignInErrorText(r))
                 /\ UNCHANGED currentUser
  /\ pLast' = NoPOp
  /\ UNCHANGED <<accounts, nextUid, docs, now, mounted, screenVars, photoVars,
                 profileVars>>

\* if (!user.emailVerified) { try { await sendEmailVerification ... } else { }
siVerifiedCheck(o, o2) ==
  IF ~o2.user.emailVerified
    THEN /\ Await(o, o2, "sendEmailVerification")
         /\ UNCHANGED <<error, loading>>
    ELSE /\ loading' = FALSE
         /\ Return(o, o2)
         /\ UNCHANGED error

siGetDoc(o) ==
  /\ o.kind = "signin" /\ o.pc = "getDoc"
  /\ \E r \in CallOutcomes :
       LET o2 == Call(o, "getDoc", r)
       IN IF r = "ok"
            THEN IF o.user.uid \in DOMAIN docs
                   THEN siVerifiedCheck(o, [o2 EXCEPT !.docExists = TRUE])
                   ELSE /\ Await(o, o2, "setDoc")
                        /\ UNCHANGED <<error, loading>>
            ELSE Catch(o, o2, SignInErrorText("unavailable"))
  /\ pLast' = NoPOp
  /\ UNCHANGED <<backendVars, mounted, screenVars, photoVars, profileVars>>

siSetDoc(o) ==
  /\ o.kind = "signin" /\ o.pc = "setDoc"
  /\ \E r \in CallOutcomes :
       LET o2 == Call(o, "setDoc", r)
       IN IF r = "ok"
            THEN /\ docs' = Put(docs, o.user.uid, SignInDoc(o.user))
                 /\ siVerifiedCheck(o, o2)
            ELSE /\ Catch(o, o2, SignInErrorText("unavailable"))
                 /\ UNCHANGED docs
  /\ Tick
  /\ pLast' = NoPOp
  /\ UNCHANGED <<accounts, nextUid, currentUser, mounted, screenVars, photoVars,
                 profileVars>>

\* the email goes out, or the call is rejected
Mailed(u, r) ==
  IF r = "ok" /\ u \in DOMAIN accounts
    THEN [accounts EXCEPT ![u].mailed = TRUE]
    ELSE accounts

\* a variant of siSendEmailVerification whose rejection reaches the outer
\* catch, as in the sign-up branch
siSendEmailVerificationStrict(o) ==
  /\ o.kind = "signin" /\ o.pc = "sendEmailVerification"
  /\ \E r \in CallOutcomes :
       LET o2 == Call(o, "sendEmailVerification", r)
       IN /\ accounts' = Mailed(o.user.uid, r)
          /\ IF r = "ok"
               THEN /\ Await(o, o2, "signOut")
                    /\ UNCHANGED <<error, loading>>
               ELSE Catch(o, o2, SignInErrorText("auth/network-request-failed"))
  /\ pLast' = NoPOp
  /\ UNCHANGED <<nextUid, currentUser, docs, now, mounted, screenVars, photoVars,
                 profileVars>>

\* try { await sendEmailVerification(user) } catch { console.error }
siSendEmailVerification(o) ==
  /\ o.kind = "signin" /\ o.pc = "sendEmailVerification"
  /\ \E r \in CallOutcomes :
       /\ accounts' = Mailed(o.user.uid, r)
       /\ Await(o, Call(o, "sendEmailVerification", r), "signOut")
  /\ pLast' = NoPOp
  /\ UNCHANGED <<nextUid, currentUser, docs, now, mounted, screenVars, photoVars,
                 error, loading, profileVars>>

\* await signOut(auth); setVerificationPending(true)
SignOutThenPending(o, catchText) ==
  \E r \in CallOutcomes :
    LET o2 == Call(o, "signOut", r)
    IN IF r = "ok"
         THEN /\ currentUser' = NoUser
              /\ verificationPending' = TRUE
              /\ loading' = FALSE
              /\ Return(o, o2)
              /\ UNCHANGED error
         ELSE /\ Catch(o, o2, catchText)
              /\ UNCHANGED <<currentUser, verificationPending>>

siSignOut(o) ==
  /\ o.kind = "signin" /\ o.pc = "signOut"
  /\ SignOutThenPending(o, SignInErrorText("auth/network-request-failed"))
  /\ pLast' = NoPOp
  /\ UNCHANGED <<accounts, nextUid, docs, now, mounted, isLogin, isForgotPassword,
                 resetSuccess, photoVars, profileVars>>

\* ---- sign-up branch

suCreateUser(o) ==
  /\ o.kind = "signup" /\ o.pc = "createUserWithEmailAndPassword"
  /\ \E r \in CreateUserOutcomes(o.email, o.password) :
       LET o2 == Call(o, "createUserWithEmailAndPassword", r)
           u == nextUid + 1
           acct == [email |-> o.email, password |-> o.password,
                    displayName |-> Null, emailVerified |-> FALSE,
                    mailed |-> FALSE]
           user == [uid |-> u, email |-> o.email, displayName |-> Null,
                    emailVerified |-> FALSE]
       IN IF r = "ok"
            THEN /\ nextUid < MaxUid
                 /\ accounts' = Put(accounts, u, acct)
                 /\ nextUid' = u
                 /\ currentUser' = u
                 /\ Await(o, [o2 EXCEPT !.user = user],
                          IF o.name # "" THEN "updateProfile" ELSE "setDoc")
                 /\ UNCHANGED <<error, loading>>
            ELSE /\ Catch(o, o2, SignUpErrorText(r))
                 /\ UNCHANGED <<accounts, nextUid, currentUser>>
  /\ pLast' = NoPOp
  /\ UNCHANGED <<docs, now, mounted, screenVars, photoVars, profileVars>>

suUpdateProfile(o) ==
  /\ o.kind = "signup" /\ o.pc = "updateProfile"
  /\ \E r \in CallOutcomes :
       LET o2 == Call(o, "updateProfile", r)
       IN IF r = "ok"
            THEN /\ accounts' = [accounts EXCEPT ![o.user.uid].displayName = o.name]
                 /\ Await(o, [o2 EXCEPT !.user.displayName = o.name], "setDoc")
                 /\ UNCHANGED <<error, loading>>
            ELSE /\ Catch(o, o2, SignUpErrorText("auth/network-request-failed"))
                 /\ UNCHANGED accounts
  /\ pLast' = NoPOp
  /\ UNCHANGED <<nextUid, currentUser, docs, now, mounted, screenVars, photoVars,
                 profileVars>>

suSetDoc(o) ==
  /\ o.kind = "signup" /\ o.pc = "setDoc"
  /\ \E r \in CallOutcomes :
       LET o2 == Call(o, "setDoc", r)
       IN IF r = "ok"
            THEN /\ docs' = Put(docs, o.user.uid, SignUpDoc(o))
                 /\ Await(o, o2, "sendEmailVerification")
                 /\ UNCHANGED <<error, loading>>
            ELSE /\ Catch(o, o2, SignUpErrorText("unavailable"))
                 /\ UNCHANGED docs
  /\ Tick
  /\ pLast' = NoPOp
  /\ UNCHANGED <<accounts, nextUid, currentUser, mounted, screenVars, photoVars,
                 profileVars>>

\* a variant of suSendEmailVerification that swallows a rejection, as the
\* sign-in branch does
suSendEmailVerificationTolerant(o) ==
  /\ o.kind = "signup" /\ o.pc = "sendEmailVerification"
  /\ \E r \in CallOutcomes :
       /\ accounts' = Mailed(o.user.uid, r)
       /\ Await(o, Call(o, "sendEmailVerification", r), "signOut")
  /\ pLast' = NoPOp
  /\ UNCHANGED <<nextUid, currentUser, docs, now, mounted, screenVars, photoVars,
                 error, loading, profileVars>>

\* await sendEmailVerification(user): a rejection reaches the catch
suSendEmailVerification(o) ==
  /\ o.kind = "signup" /\ o.pc = "sendEmailVerification"
  /\ \E r \in CallOutcomes :
       LET o2 == Call(o, "sendEmailVerification", r)
       IN /\ accounts' = Mailed(o.user.uid, r)
          /\ IF r = "ok"
               THEN /\ Await(o, o2, "signOut")
                    /\ UNCHANGED <<error, loading>>
               ELSE Catch(o, o2, SignUpErrorText("auth/too-many-requests"))
  /\ pLast' = NoPOp
  /\ UNCHANGED <<nextUid, currentUser, docs, now, mounted, screenVars, photoVars,
                 profileVars>>

suSignOut(o) ==
  /\ o.kind = "signup" /\ o.pc = "signOut"
  /\ SignOutThenPending(o, SignUpErrorText("auth/network-request-failed"))
  /\ pLast' = NoPOp
  /\ UNCHANGED <<accounts, nextUid, docs, now, mounted, isLogin, isForgotPassword,
                 resetSuccess, photoVars, profileVars>>

\* ------------------------------------------------------------ ProfileAgent

PCall(o, fn, res) == [o EXCEPT !.calls = Append(@, [fn |-> fn, res |-> res])]

PReturn(o) == pOp' = NoPOp /\ pLast' = [o EXCEPT !.pc = "done"]

\* a step of the profile view that is not a return of its handlers
PQuiet == last' = NoOp /\ UNCHANGED completed

\* the messages, by the lang prop (diacritics dropped)
UpdateOkText(l) ==
  IF l = "vi" THEN "Cap nhat thanh cong!" ELSE "Profile updated successfully!"
UpdateFailedText(l) ==
  IF l = "vi" THEN "Loi cap nhat." ELSE "Update failed."
DeleteFailedText(l) ==
  IF l = "vi" THEN "Loi: Can dang nhap lai de xoa." ELSE "Error: Requires recent login."

\* fetchProfile up to its await: no read is issued without a session.
\* saved: the document as the Save that asks for the read left it
FetchProfile(fs, saved) ==
  IF currentUser = NoUser
    THEN fs
    ELSE Append(fs, [uid |-> currentUser, saved |-> saved])

\* the buttons are rendered once loading is false; disabled={updating}
ButtonsEnabled == mounted = "ProfileAgent" /\ ~pLoading /\ ~updating

\* App shows the profile view: useState initial values, then
\* useEffect(() => fetchProfile(), []); Auth goes away
Mount(l) ==
  /\ mounted = "Auth"
  /\ ops = {}
  /\ mounted' = "ProfileAgent"
  /\ lang' = l
  /\ fetches' = FetchProfile(<< >>, None)
  /\ isLogin' = TRUE /\ isForgotPassword' = FALSE /\ resetSuccess' = FALSE
  /\ verificationPending' = FALSE /\ error' = "" /\ loading' = FALSE
  /\ photoPreview' = Null /\ photoFileName' = "" /\ readers' = << >>
  /\ Quiet
  /\ UNCHANGED <<backendVars, ops, pLoading, updating, profileData, editName, msg,
                 pOp, timers>>

\* App shows Auth again: the profile view goes away, and later state updates
\* of its callbacks are no-ops
Unmount ==
  /\ mounted = "ProfileAgent"
  /\ pOp.kind = "none"
  /\ mounted' = "Auth"
  /\ lang' = "en"
  /\ pLoading' = TRUE
  /\ updating' = FALSE
  /\ profileData' = None
  /\ editName' = ""
  /\ msg' = ""
  /\ fetches' = << >>
  /\ timers' = 0
  /\ Quiet
  /\ UNCHANGED <<backendVars, authVars, pOp>>

\* getDoc of fetchProfile answers
fetchProfileGetDoc(i) ==
  /\ mounted = "ProfileAgent"
  /\ i \in 1 .. Len(fetches)
  /\ LET f == fetches[i]
     IN \E r \in CallOutcomes :
          /\ IF r = "ok" /\ f.uid \in DOMAIN docs
               THEN /\ profileData' = Some(docs[f.uid])
                    /\ editName' = OrEmpty(docs[f.uid].name)
               ELSE UNCHANGED <<profileData, editName>>
          /\ pLast' = [NoPOp EXCEPT !.kind = "fetch", !.pc = "done", !.uid = f.uid,
                                    !.saved = f.saved,
                                    !.calls = <<[fn |-> "getDoc", res |-> r]>>]
  /\ pLoading' = FALSE
  /\ fetches' = RemoveAt(fetches, i)
  /\ PQuiet
  /\ UNCHANGED <<backendVars, mounted, authVars, lang, updating, msg, pOp, timers>>

\* the name field is edited to nm (or left as it is), then "Save Changes"
handleUpdate(nm) ==
  /\ ButtonsEnabled
  /\ currentUser # NoUser
  /\ Len(fetches) < MaxFetches /\ timers < MaxTimers
  /\ editName' = nm
  /\ updating' = TRUE
  /\ pOp' = [NoPOp EXCEPT !.kind = "update", !.pc = "updateDoc",
                          !.uid = currentUser, !.name = nm]
  /\ Quiet
  /\ UNCHANGED <<backendVars, mounted, authVars, lang, pLoading, profileData, msg,
                 fetches, timers>>

\* updateDoc rejects when the document does not exist
UpdateDocOutcomes(u) == IF u \in DOMAIN docs THEN {"ok", "failed"} ELSE {"not-found"}

\* a variant of UpdateDoc that replaces the document, as setDoc without merge
UpdateDocOverwrite(u, nm) ==
  [docs EXCEPT ![u] = [name |-> nm, email |-> Undefined, photoFileName |-> Undefined,
                       photoBase64 |-> Undefined, createdAt |-> Undefined]]

\* updateDoc(docRef, {name: editName})
UpdateDoc(u, nm) == [docs EXCEPT ![u].name = nm]

huUpdateDoc ==
  /\ pOp.kind = "update" /\ pOp.pc = "updateDoc"
  /\ \E r \in UpdateDocOutcomes(pOp.uid) :
       /\ IF r = "ok"
            THEN /\ docs' = UpdateDoc(pOp.uid, pOp.name)
                 /\ msg' = UpdateOkText(lang)
                 /\ timers' = timers + 1
                 /\ fetches' = FetchProfile(fetches, Some(docs'[pOp.uid]))
            ELSE /\ msg' = UpdateFailedText(lang)
                 /\ UNCHANGED <<docs, timers, fetches>>
       /\ PReturn(PCall(pOp, "updateDoc", r))
  /\ updating' = FALSE
  /\ PQuiet
  /\ UNCHANGED <<accounts, nextUid, currentUser, now, mounted, authVars, lang,
                 pLoading, profileData, editName>>

\* setTimeout(() => setMsg(''), 3000) fires
timerFire ==
  /\ mounted = "ProfileAgent"
  /\ timers > 0
  /\ timers' = timers - 1
  /\ msg' = ""
  /\ Quiet
  /\ UNCHANGED <<backendVars, mounted, authVars, lang, pLoading, updating,
                 profileData, editName, pOp, fetches>>

\* the trash button, then window.confirm answers
handleDeleteAccount(confirmed) ==
  /\ ButtonsEnabled
  /\ currentUser # NoUser
  /\ LET o == [NoPOp EXCEPT !.kind = "delete", !.uid = currentUser,
                            !.confirmed = confirmed]
     IN IF confirmed
          THEN /\ updating' = TRUE
               /\ pOp' = [o EXCEPT !.pc = "deleteDoc"]
               /\ pLast' = NoPOp
          ELSE /\ PReturn(o)
               /\ UNCHANGED updating
  /\ PQuiet
  /\ UNCHANGED <<backendVars, mounted, authVars, lang, pLoading, profileData,
                 editName, msg, fetches, timers>>

\* a variant of DeleteCatch that leaves the buttons disabled
DeleteCatchKeepsUpdating(o) ==
  /\ msg' = DeleteFailedText(lang)
  /\ updating' = updating
  /\ PReturn(o)

\* the catch of handleDeleteAccount
DeleteCatch(o) ==
  /\ msg' = DeleteFailedText(lang)
  /\ updating' = FALSE
  /\ PReturn(o)

\* a variant of hdDeleteDoc that goes on to deleteUser whatever deleteDoc
\* answered
hdDeleteDocUnchecked ==
  /\ pOp.kind = "delete" /\ pOp.pc = "deleteDoc"
  /\ \E r \in CallOutcomes :
       LET o2 == PCall(pOp, "deleteDoc", r)
       IN /\ docs' = IF r = "ok" THEN Drop(docs, pOp.uid) ELSE docs
          /\ IF currentUser # NoUser
               THEN /\ pOp' = [o2 EXCEPT !.pc = "deleteUser"]
                    /\ pLast' = NoPOp
                    /\ UNCHANGED <<msg, updating>>
               ELSE DeleteCatch(o2)
  /\ PQuiet
  /\ UNCHANGED <<accounts, nextUid, currentUser, now, mounted, authVars, lang,
                 pLoading, profileData, editName, fetches, timers>>

hdDeleteDoc ==
  /\ pOp.kind = "delete" /\ pOp.pc = "deleteDoc"
  /\ \E r \in CallOutcomes :
       LET o2 == PCall(pOp, "deleteDoc", r)
       IN IF r = "ok"
            THEN /\ docs' = Drop(docs, pOp.uid)
                 /\ IF currentUser # NoUser
                      THEN /\ pOp' = [o2 EXCEPT !.pc = "deleteUser"]
                           /\ pLast' = NoPOp
                           /\ UNCHANGED <<msg, updating>>
                      ELSE DeleteCatch(o2)
            ELSE /\ DeleteCatch(o2)
                 /\ UNCHANGED docs
  /\ PQuiet
  /\ UNCHANGED <<accounts, nextUid, currentUser, now, mounted, authVars, lang,
                 pLoading, profileData, editName, fetches, timers>>

\* what deleteUser may answer
DeleteUserOutcomes == {"ok", "auth/requires-recent-login"}

hdDeleteUser ==
  /\ pOp.kind = "delete" /\ pOp.pc = "deleteUser"
  /\ \E r \in DeleteUserOutcomes :
       LET o2 == PCall(pOp, "deleteUser", r)
       IN IF r = "ok"
            THEN /\ accounts' = Drop(accounts, currentUser)
                 /\ currentUser' = NoUser
                 /\ completed' = completed \ {currentUser}
                 /\ PReturn(o2)
                 /\ UNCHANGED <<msg, updating>>
            ELSE /\ DeleteCatch(o2)
                 /\ UNCHANGED <<accounts, currentUser, completed>>
  /\ last' = NoOp
  /\ UNCHANGED <<nextUid, docs, now, mounted, authVars, lang, pLoading, profileData,
                 editName, fetches, timers>>

\* ------------------------------------------------------------ specification

\* the other user's account and profile document
OtherAccount == [email |-> "b@x.com", password |-> "other-secret",
                 displayName |-> "Bob", emailVerified |-> TRUE, mailed |-> TRUE]
OtherDoc == [name |-> "Bob", email |-> "b@x.com", photoFileName |-> "",
             photoBase64 |-> "", createdAt |-> 0]

Init ==
  /\ accounts = Put(<< >>, OtherUid, OtherAccount)
  /\ nextUid = OtherUid
  /\ currentUser = NoUser
  /\ docs = Put(<< >>, OtherUid, OtherDoc)
  /\ now = 0
  /\ mounted = "Auth"
  /\ isLogin = TRUE
  /\ isForgotPassword = FALSE
  /\ resetSuccess = FALSE
  /\ photoPreview = Null
  /\ photoFileName = ""
  /\ error = ""
  /\ loading = FALSE
  /\ verificationPending = FALSE
  /\ readers = << >>
  /\ ops = {}
  /\ last = NoOp
  /\ completed = {OtherUid}
  /\ lang = "en"
  /\ pLoading = TRUE
  /\ updating = FALSE
  /\ profileData = None
  /\ editName = ""
  /\ msg = ""
  /\ pOp = NoPOp
  /\ pLast = NoPOp
  /\ fetches = << >>
  /\ timers = 0

\* the environment: the user follows the link of a verification email
Backend ==
  \E u \in DOMAIN accounts : VerifyEmail(u)

AuthSteps ==
  \/ toggleMode
  \/ forgotPasswordClick
  \/ forgotBack
  \/ resetDoneSignIn
  \/ backToLogin
  \/ existsYes
  \/ \E em \in Emails : handleResetPassword(em)
  \/ \E em \in Emails, pw \in Passwords, cpw \in Passwords, nm \in Names :
       handleSubmit(em, pw, cpw, nm)
  \/ \E o \in ops : rpSendPasswordResetEmail(o)
  \/ \E o \in ops : siSignIn(o)
  \/ \E o \in ops : siGetDoc(o)
  \/ \E o \in ops : siSetDoc(o)
  \/ \E o \in ops : siSendEmailVerification(o)
  \/ \E o \in ops : siSignOut(o)
  \/ \E o \in ops : suCreateUser(o)
  \/ \E o \in ops : suUpdateProfile(o)
  \/ \E o \in ops : suSetDoc(o)
  \/ \E o \in ops : suSendEmailVerification(o)
  \/ \E o \in ops : suSignOut(o)

PhotoSteps ==
  \/ \E f \in Files : handlePhotoChange(f)
  \/ \E i \in 1 .. MaxReaders : readerOnLoadEnd(i)

ProfileSteps ==
  \/ \E l \in Langs : Mount(l)
  \/ Unmount
  \/ \E i \in 1 .. MaxFetches : fetchProfileGetDoc(i)
  \/ \E nm \in EditNames \cup {editName} : handleUpdate(nm)
  \/ huUpdateDoc
  \/ timerFire
  \/ \E c \in BOOLEAN : handleDeleteAccount(c)
  \/ hdDeleteDoc
  \/ hdDeleteUser

\* both components; no photo is picked on the sign-up form
Next == Backend \/ AuthSteps \/ ProfileSteps

Spec == Init /\ [][Next]_vars

\* the Auth component alone, photo picking included
NextPhoto == Backend \/ AuthSteps \/ PhotoSteps

SpecPhoto == Init /\ [][NextPhoto]_vars

\* ---- every backend call eventually answers and every timer fires

\* the awaited call of the Auth handler in flight answers
AuthAnswers ==
  \E o \in ops :
    \/ rpSendPasswordResetEmail(o)
    \/ siSignIn(o) \/ siGetDoc(o) \/ siSetDoc(o)
    \/ siSendEmailVerification(o) \/ siSignOut(o)
    \/ suCreateUser(o) \/ suUpdateProfile(o) \/ suSetDoc(o)
    \/ suSendEmailVerification(o) \/ suSignOut(o)

\* the awaited call of handleUpdate / handleDeleteAccount answers
ProfileAnswers == huUpdateDoc \/ hdDeleteDoc \/ hdDeleteUser

\* the getDoc of a fetchProfile answers
FetchAnswers == \E i \in 1 .. MaxFetches : fetchProfileGetDoc(i)

Fairness ==
  /\ WF_vars(AuthAnswers)
  /\ WF_vars(ProfileAnswers)
  /\ WF_vars(FetchAnswers)
  /\ WF_vars(timerFire)

\* the user may stop acting at any moment; the backend and the timers do not
FairSpec == Init /\ [][Next]_vars /\ Fairness

\* ------------------------------------------------------------------ claims

\* the calls an invocation has made, by name
Fns(o) == [i \in 1 .. Len(o.calls) |-> o.calls[i].fn]
Called(o, fn) == \E i \in 1 .. Len(o.calls) : o.calls[i].fn = fn
Ok(o, fn) == \E i \in 1 .. Len(o.calls) : o.calls[i].fn = fn /\ o.calls[i].res = "ok"
Rejected(o, fn) == \E i \in 1 .. Len(o.calls) : o.calls[i].fn = fn /\ o.calls[i].res # "ok"
IsPrefix(s, t) == Len(s) <= Len(t) /\ SubSeq(t, 1, Len(s)) = s

\* the Auth invocations in flight and the one that has just returned
Invocations == ops \cup {last}

\* C1: a sign-in whose credential check succeeds for an unverified account
\* ends signed out and in verificationPending, whatever the profile read,
\* the profile write and the verification resend answer.
C1_UnverifiedSignInEndsSignedOut ==
  (/\ last.kind = "signin"
   /\ Ok(last, "signInWithEmailAndPassword")
   /\ ~last.user.emailVerified
   /\ ~Rejected(last, "signOut"))
  => (currentUser = NoUser /\ verificationPending)

C4_CompletedAccountHasDoc ==
  (ops = {} /\ pOp.kind = "none")
  => \A u \in completed \cap DOMAIN accounts : u \in DOMAIN docs

\* C5: delete-account deletes the document first and the account second; when
\* the account deletion is rejected the document is absent, the account still
\* exists, the session is still active, the error message is shown and
\* updating is false again.
C5_DeleteOrderAndPartialFailure ==
  /\ pOp.kind = "delete"
     => /\ pOp.pc = "deleteDoc" => pOp.calls = << >>
        /\ pOp.pc = "deleteUser"
           => /\ pOp.calls = <<[fn |-> "deleteDoc", res |-> "ok"]>>
              /\ pOp.uid \notin DOMAIN docs
              /\ pOp.uid \in DOMAIN accounts
  /\ (pLast.kind = "delete" /\ pLast.confirmed)
     => /\ IsPrefix(Fns(pLast), <<"deleteDoc", "deleteUser">>)
        /\ Called(pLast, "deleteUser") => Ok(pLast, "deleteDoc")
        /\ Rejected(pLast, "deleteUser")
           => /\ pLast.uid \notin DOMAIN docs
              /\ pLast.uid \in DOMAIN accounts
              /\ currentUser = pLast.uid
              /\ msg = DeleteFailedText(lang)
              /\ msg # ""
              /\ ~updating

\* C5 witness: a confirmed delete-account has just returned from a rejected
\* account deletion.
C5_Witness ==
  /\ pLast.kind = "delete"
  /\ pLast.confirmed
  /\ Rejected(pLast, "deleteUser")

\* the data of the file whose name the form shows as selected
SelectedData(nm) ==
  IF nm = "" THEN "" ELSE (CHOOSE f \in Files : f.name = nm).data

\* C2: a sign-up with matching passwords in which every backend call succeeds
\* ends with the account existing, a profile document under the new account
\* id holding the supplied name and email, the selected photo's file name and
\* data (empty strings when no photo was selected) and a createdAt, the
\* session signed out, verificationPending reached and loading false.
C2_SignUpEndState ==
  (last.kind = "signup" /\ Ok(last, "signOut"))
  => /\ last.user.uid \in DOMAIN accounts
     /\ last.user.uid \in DOMAIN docs
     /\ docs[last.user.uid].name = last.name
     /\ docs[last.user.uid].email = last.email
     /\ docs[last.user.uid].photoFileName = last.photoFileName
     /\ docs[last.user.uid].photoBase64 = SelectedData(last.photoFileName)
     /\ docs[last.user.uid].createdAt \in 0 .. MaxTime
     /\ currentUser = NoUser
     /\ verificationPending
     /\ ~loading

\* C6, the write: a Save that succeeds changes the name field of the current
\* account's existing document and nothing else, and asks for a re-fetch.
C6_SaveFrame ==
  (pLast'.kind = "update" /\ Ok(pLast', "updateDoc"))
  => LET u == pLast'.uid
     IN /\ u = currentUser
        /\ u \in DOMAIN docs
        /\ DOMAIN docs' = DOMAIN docs
        /\ docs'[u].name = pLast'.name
        /\ docs'[u].email = docs[u].email
        /\ docs'[u].photoFileName = docs[u].photoFileName
        /\ docs'[u].photoBase64 = docs[u].photoBase64
        /\ docs'[u].createdAt = docs[u].createdAt
        /\ \A v \in DOMAIN docs \ {u} : docs'[v] = docs[v]
        /\ fetches' = Append(fetches, [uid |-> u, saved |-> Some(docs'[u])])

\* C6, the re-fetch: when the read a Save asked for succeeds and the document
\* is still as that Save left it, the view shows the new name and every
\* other field as stored.
C6_RefetchShows ==
  (/\ pLast.kind = "fetch" /\ pLast.saved # None
   /\ Ok(pLast, "getDoc")
   /\ pLast.uid \in DOMAIN docs
   /\ docs[pLast.uid] = pLast.saved[1])
  => /\ profileData = pLast.saved
     /\ editName = OrEmpty(pLast.saved[1].name)

\* C6: a successful Save(newName) changes only the name field of the current
\* account's existing profile document, touches no other document, and the
\* re-fetch that follows (when its read succeeds and nothing has written the
\* document in between) shows newName with every other field unchanged.
C6_SaveChangesOnlyName == [][C6_SaveFrame]_vars /\ []C6_RefetchShows

\* C6 witness: the re-fetch after saving "Anne" has answered and the view
\* shows the new name.
C6_Witness ==
  /\ pLast.kind = "fetch" /\ pLast.saved # None
  /\ Ok(pLast, "getDoc")
  /\ profileData = Some(docs[pLast.uid])
  /\ profileData[1].name = "Anne"
  /\ profileData[1].email = "a@x.com"

\* C7, the state: at most one submit is in flight and loading is true while
\* one is.
C7_OneInFlight ==
  /\ Cardinality(ops) <= 1
  /\ ops # {} => loading

\* C7, the start: a submit starts only while loading is false.
C7_StartsOnlyIdle ==
  ((\E o \in ops' \ ops : o.calls = << >>) \/ (last' # NoOp /\ last'.calls = << >>))
  => ~loading

\* C7: at most one of the sign-in, sign-up and forgot-password submits is in
\* flight; loading is true from the start of a submit to the end of its
\* round trip, and no submit starts while loading is true, whatever screen
\* the user switches to meanwhile.
C7_SubmitsMutuallyExclusive == []C7_OneInFlight /\ [][C7_StartsOnlyIdle]_vars

\* C7 witness: a sign-in is in flight and the user has switched to the
\* forgot-password screen.
C7_Witness ==
  /\ ForgotScreen
  /\ loading
  /\ \E o \in ops : o.kind = "signin"

\* a submit that fails local validation
FailsValidation(o) ==
  \/ o.kind = "signup" /\ o.password # o.confirmPassword
  \/ o.kind = "reset" /\ o.email = ""

\* C8, the state: a submit that fails validation is never in flight, and has
\* returned with its inline error, no call made and loading false.
C8_NoCallState ==
  /\ \A o \in ops : ~FailsValidation(o)
  /\ FailsValidation(last)
     => /\ last.calls = << >>
        /\ ~loading
        /\ last.kind = "signup" => error = "Passwords do not match"
        /\ last.kind = "reset" => error = "Please enter your email address."

\* C8, the step: the submit changes no backend state and no screen state.
C8_NoCallStep ==
  FailsValidation(last') => UNCHANGED <<backendVars, screenVars, ops>>

\* C8: a sign-up with password # confirmPassword and a forgot-password with an
\* empty email make no backend call, change no backend state, set the inline
\* error, return loading to false and leave the screen state unchanged.
C8_ValidationFailureMakesNoCall == []C8_NoCallState /\ [][C8_NoCallStep]_vars

\* C8 witness: a sign-up with mismatched passwords has just returned.
C8_Witness ==
  /\ last.kind = "signup"
  /\ last.password # last.confirmPassword
  /\ error = "Passwords do not match"

\* the credential check of a sign-in was rejected as invalid credentials,
\* unknown account or wrong password
CredentialsRejected(o) ==
  /\ o.kind = "signin"
  /\ Len(o.calls) >= 1
  /\ o.calls[1].fn = "signInWithEmailAndPassword"
  /\ o.calls[1].res \in {"auth/invalid-credential", "auth/user-not-found",
                         "auth/wrong-password"}

\* C9, the state after the rejection
C9_RejectedState ==
  CredentialsRejected(last)
  => /\ error = "Password or Email Incorrect"
     /\ ~loading
     /\ ~verificationPending
     /\ Fns(last) = <<"signInWithEmailAndPassword">>

\* C9, the steps of such a sign-in: neither its start nor its return changes
\* the screen state, the session or a document.
C9_RejectedStep ==
  (\/ CredentialsRejected(last')
   \/ \E o \in ops' \ ops : o.kind = "signin" /\ o.calls = << >>)
  => UNCHANGED <<screenVars, backendVars>>

\* C9: a sign-in rejected as invalid credentials, unknown account or wrong
\* password shows exactly "Password or Email Incorrect", returns loading to
\* false, makes no screen-state transition, reads and writes no profile
\* document and activates no session.
C9_WrongPasswordMessage == []C9_RejectedState /\ [][C9_RejectedStep]_vars

\* C9 witness: a sign-in with a wrong password has just returned.
C9_Witness ==
  /\ CredentialsRejected(last)
  /\ last.calls[1].res = "auth/wrong-password"

\* the backend steps of a sign-up; the display name is set when one is given
SignUpSteps(nm) ==
  IF nm # ""
    THEN <<"createUserWithEmailAndPassword", "updateProfile", "setDoc",
           "sendEmailVerification", "signOut">>
    ELSE <<"createUserWithEmailAndPassword", "setDoc", "sendEmailVerification",
           "signOut">>

\* C10: sign-up runs create account, set display name, write profile document,
\* send verification email, sign out in this order, each step only after the
\* one before it succeeded and with no rollback; when the verification email
\* is rejected the account and its document exist, no sign-out is made,
\* verificationPending is not reached and "Failed to create account." is
\* shown with loading false.
C10_SignUpOrderNoRollback ==
  /\ \A o \in Invocations :
       o.kind = "signup"
       => /\ IsPrefix(Fns(o), SignUpSteps(o.name))
          /\ \A i \in 1 .. Len(o.calls) - 1 : o.calls[i].res = "ok"
          /\ o \in ops
             => /\ \A i \in 1 .. Len(o.calls) : o.calls[i].res = "ok"
                /\ o.pc = SignUpSteps(o.name)[Len(o.calls) + 1]
  /\ (last.kind = "signup" /\ Rejected(last, "sendEmailVerification"))
     => /\ last.user.uid \in DOMAIN accounts
        /\ last.user.uid \in DOMAIN docs
        /\ ~Called(last, "signOut")
        /\ ~verificationPending
        /\ error = "Failed to create account."
        /\ ~loading

\* C10 witness: a sign-up with a name has just returned from a rejected
\* verification email.
C10_Witness ==
  /\ last.kind = "signup"
  /\ last.name = "Ann"
  /\ Rejected(last, "sendEmailVerification")
  /\ Len(last.calls) = 4

\* C11: in a sign-in of an unverified account the resend's answer, ok or
\* rejected, is followed by the sign-out; when the sign-out succeeds the
\* session is signed out, verificationPending is reached, no error message is
\* set and loading is false, the same after a rejected resend as after one
\* that succeeded.
C11_ResendFailureSwallowed ==
  /\ \A o \in ops :
       (o.kind = "signin" /\ Called(o, "sendEmailVerification"))
       => /\ o.pc = "signOut"
          /\ error = ""
          /\ loading
  /\ (last.kind = "signin" /\ Called(last, "sendEmailVerification"))
     => /\ Called(last, "signOut")
        /\ Ok(last, "signOut")
           => /\ currentUser = NoUser
              /\ verificationPending
              /\ error = ""
              /\ ~loading

\* C11 witness: a sign-in whose resend was rejected has signed out and
\* reached verificationPending with no error message.
C11_Witness ==
  /\ last.kind = "signin"
  /\ Rejected(last, "sendEmailVerification")
  /\ Ok(last, "signOut")
  /\ verificationPending
  /\ error = ""

\* C14: whenever a sign-in or sign-up submit has finished, no session is
\* active for an account whose email is unverified.
C14_NoUnverifiedSessionAfterSubmit ==
  (last.kind \in {"signin", "signup"} /\ ~loading)
  => \/ currentUser = NoUser
     \/ /\ currentUser \in DOMAIN accounts
        /\ accounts[currentUser].emailVerified

\* C15: delete-account calls deleteUser only after deleteDoc has answered ok;
\* when deleteDoc is rejected the account is not deleted and the error is
\* shown; no delete-account ends with the account deleted while its profile
\* document still exists.
C15_AccountDeletedOnlyAfterDoc ==
  /\ (pOp.kind = "delete" /\ pOp.pc = "deleteUser")
     => pOp.calls = <<[fn |-> "deleteDoc", res |-> "ok"]>>
  /\ (pLast.kind = "delete" /\ pLast.confirmed)
     => /\ Called(pLast, "deleteUser")
           => pLast.calls[1] = [fn |-> "deleteDoc", res |-> "ok"]
        /\ Rejected(pLast, "deleteDoc")
           => /\ ~Called(pLast, "deleteUser")
              /\ pLast.uid \in DOMAIN accounts
              /\ currentUser = pLast.uid
              /\ msg = DeleteFailedText(lang)
              /\ ~updating
        /\ ~(pLast.uid \notin DOMAIN accounts /\ pLast.uid \in DOMAIN docs)

\* C15 witness: a delete-account whose deleteDoc was rejected has returned,
\* the account and its document both still there.
C15_Witness ==
  /\ pLast.kind = "delete"
  /\ Rejected(pLast, "deleteDoc")
  /\ pLast.uid \in DOMAIN accounts
  /\ pLast.uid \in DOMAIN docs

\* C12: every backend call answering, each started sign-in, sign-up and
\* forgot-password ends with loading false, each profile Load (one skipped
\* for want of a session included) with the mounted view's loading false,
\* and each Save and Delete-account with updating false (a Delete-account
\* that succeeded: with the session gone, at the latest).
C12_EveryOperationReturnsToIdle ==
  /\ [](loading => <>~loading)
  /\ []((mounted = "ProfileAgent" /\ pLoading)
          => <>(~pLoading \/ mounted # "ProfileAgent"))
  /\ [](updating => <>(~updating \/ currentUser = NoUser))

\* the messages a Save displays
SaveTexts == {UpdateOkText(l) : l \in Langs} \cup {UpdateFailedText(l) : l \in Langs}

\* C13: after every Save, succeeded or failed, the message it displays is
\* eventually no longer displayed.
C13_SaveMessageEventuallyCleared ==
  \A t \in SaveTexts :
    []((pLast.kind = "update" /\ msg = t) => <>(msg # t))

====
